---- MODULE Spec2Model ----
(***************************************************************************)
(* Model of the batch subject-heading editor (lokar / almar).              *)
(*                                                                         *)
(* Strings are sequences of one-character strings so that lower-casing,   *)
(* capitalisation and substring search are computed, not assumed.         *)
(* A MARC field is a tag plus one value per subfield code (None = the     *)
(* subfield is absent); a record is a sequence of fields.                 *)
(***************************************************************************)
EXTENDS Integers, Sequences, FiniteSets, TLC

\* ------------------------------------------------------------------------
\* Bounds of the model
\* ------------------------------------------------------------------------
\* number of records the search collaborator may yield in one run
MaxResults == 2

\* ------------------------------------------------------------------------
\* Strings
\* ------------------------------------------------------------------------
\* Python None
None == <<"~">>
\* util.ANY_VALUE: "present, value irrelevant"
ANY_VALUE == <<"*">>

\* unicode lower() on one character
LowerChar(c) ==
    CASE c = "M" -> "m" [] c = "O" -> "o" [] c = "A" -> "a" [] c = "K" -> "k"
      [] c = "I" -> "i" [] c = "Z" -> "z" [] c = "U" -> "u" [] OTHER -> c

\* unicode upper() on one character
UpperChar(c) ==
    CASE c = "m" -> "M" [] c = "o" -> "O" [] c = "a" -> "A" [] c = "k" -> "K"
      [] c = "i" -> "I" [] c = "z" -> "Z" [] c = "u" -> "U" [] OTHER -> c

\* str.lower()
Lower(s) == [i \in 1..Len(s) |-> LowerChar(s[i])]

\* `needle in hay` for Python strings
IsSubstring(needle, hay) ==
    \E k \in 0..(Len(hay) - Len(needle)) :
        \A i \in 1..Len(needle) : hay[k + i] = needle[i]

\* normalize_term: capitalise the first character of every component of a
\* term fused by " : " (the token ":" stands for the separator " : ")
normalize_term(term) ==
    IF term = None \/ Len(term) = 0 THEN term
    ELSE [i \in 1..Len(term) |->
            IF i = 1 \/ term[i - 1] = ":" THEN UpperChar(term[i]) ELSE term[i]]

\* ------------------------------------------------------------------------
\* Concepts, fields, queries
\* ------------------------------------------------------------------------
\* subfield codes a field can carry
FieldCodes == {"2", "0", "a", "b", "x", "y", "z"}
\* keys of Concept.sf
SfCodes == FieldCodes \cup {"a_or_x"}

NoSf == [c \in SfCodes |-> None]

\* Concept(term, vocabulary, tag): single-component terms populate a,
\* two-component terms populate a and x
Concept(tag, vocab, comps) ==
    [tag |-> tag,
     components |-> comps,
     term |-> IF Len(comps) = 1 THEN comps[1] ELSE comps[1] \o <<":">> \o comps[2],
     sf |-> [c \in SfCodes |->
               CASE c = "2" -> vocab
                 [] c = "a" -> comps[1]
                 [] c = "x" -> IF Len(comps) > 1 THEN comps[2] ELSE None
                 [] OTHER -> None]]

\* a single-component concept whose term may sit in a or in x
AmbiguousConcept(tag, vocab, term) ==
    [tag |-> tag, components |-> <<term>>, term |-> term,
     sf |-> [c \in SfCodes |->
               CASE c = "2" -> vocab [] c = "a_or_x" -> term [] OTHER -> None]]

\* Concept.set_a_or_x_to(code)
set_a_or_x_to(concept, code) ==
    [concept EXCEPT !.sf = [c \in SfCodes |->
        CASE c = code -> concept.sf["a_or_x"]
          [] c = "a_or_x" -> None
          [] OTHER -> concept.sf[c]]]

\* the absent optional argument `target=None`
NoTarget == [tag |-> None, components |-> <<>>, term |-> None, sf |-> NoSf]

Field(tag, vocab, a, x) ==
    [tag |-> tag,
     sf |-> [c \in FieldCodes |->
               CASE c = "2" -> vocab [] c = "a" -> a [] c = "x" -> x [] OTHER -> None]]

\* str(field): the tag, then every subfield as "$code value"
FieldStr(field) ==
    LET part(c) == IF field.sf[c] = None THEN <<>> ELSE <<"$", c>> \o field.sf[c]
    IN field.tag \o part("a") \o part("b") \o part("x") \o part("y") \o part("z")
                 \o part("2") \o part("0")

\* one entry of a query dictionary
QEntry(search) == [search |-> search, has_replace |-> FALSE, replace |-> None]
QReplace(search, replace) == [search |-> search, has_replace |-> TRUE, replace |-> replace]

\* variant: a subfield the target does not populate is searched, not replaced
make_query_KeepsUnset(source, target) ==
    LET codes == {"2", "a", "b", "x", "y", "z"}
                 \cup (IF target # NoTarget /\ target.sf["0"] # None THEN {"0"} ELSE {})
    IN [c \in codes |->
          CASE c = "2" -> QEntry(source.sf["2"])
            [] c = "0" -> QReplace(ANY_VALUE, target.sf["0"])
            [] OTHER -> IF target # NoTarget /\ target.sf[c] # None
                        THEN QReplace(source.sf[c], target.sf[c])
                        ELSE QEntry(source.sf[c])]

\* Task.make_query
make_query(source, target) ==
    LET codes == {"2", "a", "b", "x", "y", "z"}
                 \cup (IF target # NoTarget /\ target.sf["0"] # None THEN {"0"} ELSE {})
    IN [c \in codes |->
          CASE c = "2" -> QEntry(source.sf["2"])
            [] c = "0" -> QReplace(ANY_VALUE, target.sf["0"])
            [] OTHER -> IF target # NoTarget
                        THEN QReplace(source.sf[c], target.sf[c])
                        ELSE QEntry(source.sf[c])]

\* variant: the component query covers the subfields the source lacks too
make_component_query_AllCodes(source, target) ==
    [c \in {"2", "a", "b", "x", "y", "z"} |->
        CASE c = "2" -> QEntry(source.sf["2"])
          [] OTHER -> IF target # NoTarget
                      THEN QReplace(source.sf[c], target.sf[c])
                      ELSE QEntry(source.sf[c])]

\* ReplaceTask.make_component_query
make_component_query(source, target) ==
    LET codes == {"2"} \cup {c \in {"a", "b", "x", "y", "z"} : source.sf[c] # None}
    IN [c \in codes |->
          CASE c = "2" -> QEntry(source.sf["2"])
            [] OTHER -> IF target # NoTarget
                        THEN QReplace(source.sf[c], target.sf[c])
                        ELSE QEntry(source.sf[c])]

\* the field matcher behind Record.fields(tag, query)
FieldMatches(field, tag, query) ==
    /\ field.tag = tag
    /\ \A c \in DOMAIN query :
          CASE query[c].search = ANY_VALUE -> field.sf[c] # None
            [] query[c].search = None -> field.sf[c] = None
            [] OTHER -> /\ field.sf[c] # None
                        /\ normalize_term(field.sf[c]) = normalize_term(query[c].search)

\* Record.fields(tag, query): positions of the matching fields, in order
fields(rec, tag, query) ==
    {i \in 1..Len(rec) : FieldMatches(rec[i], tag, query)}

\* Field.update(query): write the replace values; 1 when the field changed
FieldUpdate(field, query) ==
    [field EXCEPT !.sf = [c \in FieldCodes |->
        IF c \in DOMAIN query /\ query[c].has_replace
        THEN query[c].replace ELSE field.sf[c]]]

\* Record.remove_field for a set of positions
RemoveAt(rec, drop) ==
    LET keep == {i \in 1..Len(rec) : i \notin drop}
        RECURSIVE build(_)
        build(i) == IF i > Len(rec) THEN <<>>
                    ELSE (IF i \in keep THEN <<rec[i]>> ELSE <<>>) \o build(i + 1)
    IN build(1)

\* ------------------------------------------------------------------------
\* Tasks
\* ------------------------------------------------------------------------
\* variant: the key is built from the subfields as written
get_simple_subject_repr_Raw(field) ==
    LET part(c) == IF field.sf[c] = None THEN <<>> ELSE <<"$", c>> \o field.sf[c]
    IN field.tag \o part("a") \o part("b") \o part("x") \o part("y") \o part("z")

\* Task.get_simple_subject_repr: the tag and the normalised a, b, x, y, z
get_simple_subject_repr(field) ==
    LET part(c) == IF field.sf[c] = None THEN <<>>
                   ELSE <<"$", c>> \o normalize_term(field.sf[c])
    IN field.tag \o part("a") \o part("b") \o part("x") \o part("y") \o part("z")

\* query2 of Task.remove_duplicates: the replace value where there is one,
\* the search value otherwise
DedupQuery(query) ==
    [c \in DOMAIN query |->
        QEntry(IF query[c].has_replace THEN query[c].replace ELSE query[c].search)]

\* variant: duplicates are counted and logged but left on the record
remove_duplicates_CountOnly(rec, tag, query) ==
    LET cand == fields(rec, tag, DedupQuery(query))
        dup == {i \in cand : \E j \in cand :
                    j < i /\ get_simple_subject_repr(rec[j]) = get_simple_subject_repr(rec[i])}
    IN [rec |-> rec, dups |-> Cardinality(dup)]

\* Task.remove_duplicates: the first field of every key is kept
remove_duplicates(rec, tag, query) ==
    LET cand == fields(rec, tag, DedupQuery(query))
        RECURSIVE scan(_, _, _)
        scan(i, keys, drop) ==
            IF i > Len(rec) THEN drop
            ELSE IF i \notin cand THEN scan(i + 1, keys, drop)
            ELSE IF get_simple_subject_repr(rec[i]) \in keys
                 THEN scan(i + 1, keys, drop \cup {i})
                 ELSE scan(i + 1, keys \cup {get_simple_subject_repr(rec[i])}, drop)
        dropped == scan(1, {}, {})
    IN [rec |-> RemoveAt(rec, dropped), dups |-> Cardinality(dropped)]

\* one pass of the loop of ReplaceTask.run over one query
ReplacePass(rec, tag, query) ==
    LET hit == fields(rec, tag, query)
    IN [rec |-> [i \in 1..Len(rec) |->
                    IF i \in hit THEN FieldUpdate(rec[i], query) ELSE rec[i]],
        n |-> Cardinality({i \in hit : FieldUpdate(rec[i], query) # rec[i]})]

\* ReplaceTask.match
ReplaceTask_match(task, rec) ==
    LET query == IF task.ignore_extra_components
                 THEN make_component_query(task.source, NoTarget)
                 ELSE make_query(task.source, NoTarget)
    IN fields(rec, task.source.tag, query) # {}

\* variant: the fields removed as duplicates are counted as changes
ReplaceTask_run_CountsDups(task, target, rec) ==
    LET p1 == ReplacePass(rec, task.source.tag, make_query(task.source, target))
        p2 == IF task.ignore_extra_components
              THEN ReplacePass(p1.rec, task.source.tag,
                               make_component_query(task.source, target))
              ELSE [rec |-> p1.rec, n |-> 0]
        d == remove_duplicates(p2.rec, task.source.tag, make_query(task.source, target))
    IN [rec |-> d.rec, n |-> p1.n + p2.n + d.dups]

\* ReplaceTask.run with the given target
ReplaceTask_run(task, target, rec) ==
    LET p1 == ReplacePass(rec, task.source.tag, make_query(task.source, target))
        p2 == IF task.ignore_extra_components
              THEN ReplacePass(p1.rec, task.source.tag,
                               make_component_query(task.source, target))
              ELSE [rec |-> p1.rec, n |-> 0]
        d == remove_duplicates(p2.rec, task.source.tag, make_query(task.source, target))
    IN [rec |-> d.rec, n |-> p1.n + p2.n]

\* Task.match, inherited by DeleteTask
Task_match(source, rec) ==
    fields(rec, source.tag, make_query(source, NoTarget)) # {}

\* variant: only the first matching field is removed
DeleteTask_run_FirstOnly(source, rec) ==
    LET hit == fields(rec, source.tag, make_query(source, NoTarget))
    IN IF hit = {} THEN [rec |-> rec, n |-> 0]
       ELSE [rec |-> RemoveAt(rec, {CHOOSE i \in hit : \A j \in hit : i <= j}), n |-> 1]

\* DeleteTask.run
DeleteTask_run(source, rec) ==
    LET hit == fields(rec, source.tag, make_query(source, NoTarget))
    IN [rec |-> RemoveAt(rec, hit), n |-> Cardinality(hit)]

\* variant: an Add task matches every record
AddTask_match_Always(task, rec) == TRUE

\* AddTask.match
AddTask_match(task, rec) == FALSE

\* variant: the new field is always appended to the record
AddTask_run_Appends(task, rec) ==
    LET src == task.source
        new_field == [tag |-> src.tag,
                      sf |-> [c \in FieldCodes |->
                                IF c \in {"a", "2", "0", "x"} THEN src.sf[c] ELSE None]]
        d == remove_duplicates(Append(rec, new_field), src.tag,
                               [c \in {"2", "a", "x"} |-> QEntry(src.sf[c])])
    IN [rec |-> d.rec, n |-> 1]

\* variant: the run returns 0 when the field it inserted was removed again
AddTask_run_CountsInsertions(task, rec) ==
    LET src == task.source
        new_field == [tag |-> src.tag,
                      sf |-> [c \in FieldCodes |->
                                IF c \in {"a", "2", "0", "x"} THEN src.sf[c] ELSE None]]
        existing == fields(rec, src.tag, [c \in {"2"} |-> QEntry(src.sf["2"])])
        last == CHOOSE i \in existing : \A j \in existing : j <= i
        inserted == IF existing # {}
                    THEN SubSeq(rec, 1, last) \o <<new_field>> \o SubSeq(rec, last + 1, Len(rec))
                    ELSE Append(rec, new_field)
        d == remove_duplicates(inserted, src.tag,
                               [c \in {"2", "a", "x"} |-> QEntry(src.sf[c])])
    IN [rec |-> d.rec, n |-> IF d.dups > 0 THEN 0 ELSE 1]

\* AddTask.run
AddTask_run(task, rec) ==
    LET src == task.source
        new_field == [tag |-> src.tag,
                      sf |-> [c \in FieldCodes |->
                                IF c \in {"a", "2", "0", "x"} THEN src.sf[c] ELSE None]]
        existing == fields(rec, src.tag, [c \in {"2"} |-> QEntry(src.sf["2"])])
        last == CHOOSE i \in existing : \A j \in existing : j <= i
        inserted == IF existing # {}
                    THEN SubSeq(rec, 1, last) \o <<new_field>> \o SubSeq(rec, last + 1, Len(rec))
                    ELSE Append(rec, new_field)
        d == remove_duplicates(inserted, src.tag,
                               [c \in {"2", "a", "x"} |-> QEntry(src.sf[c])])
    IN [rec |-> d.rec, n |-> 1]

\* Field.set_tag over a set of positions
set_tag(rec, hit, tag) ==
    [i \in 1..Len(rec) |-> IF i \in hit THEN [rec[i] EXCEPT !.tag = tag] ELSE rec[i]]

\* MoveTask.run
MoveTask_run(task, rec) ==
    LET query == make_query(task.source, NoTarget)
        hit == fields(rec, task.source.tag, query)
        d == remove_duplicates(set_tag(rec, hit, task.dest_tag), task.dest_tag, query)
    IN [rec |-> d.rec, n |-> Cardinality(hit)]

ReplaceTask(src, dst, ignore_extra) ==
    [kind |-> "replace", source |-> src, sources |-> <<src>>, targets |-> <<dst>>,
     ignore_extra_components |-> ignore_extra]

\* DeleteTask(self.source_concepts): built on the list of source concepts
DeleteTask(srcs) ==
    [kind |-> "delete", source |-> NoTarget, sources |-> srcs, targets |-> <<>>,
     ignore_extra_components |-> FALSE]

ListTask(srcs) ==
    [kind |-> "list", source |-> NoTarget, sources |-> srcs, targets |-> <<>>,
     ignore_extra_components |-> FALSE]

AddTask(concept) ==
    [kind |-> "add", source |-> concept, sources |-> <<concept>>, targets |-> <<>>,
     ignore_extra_components |-> FALSE]

InteractiveReplaceTask(src, dsts) ==
    [kind |-> "interactive", source |-> src, sources |-> <<src>>, targets |-> dsts,
     ignore_extra_components |-> FALSE]

MoveTask(src, dest_tag) ==
    [kind |-> "move", source |-> src, sources |-> <<src>>, targets |-> <<>>,
     ignore_extra_components |-> FALSE, dest_tag |-> dest_tag]

\* step.match(marc_record)
StepMatch(task, rec) ==
    CASE task.kind = "replace" -> ReplaceTask_match(task, rec)
      [] task.kind = "interactive" -> ReplaceTask_match(task, rec)
      [] task.kind = "add" -> AddTask_match(task, rec)
      [] OTHER -> \E k \in 1..Len(task.sources) : Task_match(task.sources[k], rec)

\* DeleteTask.run over every source concept of the task
RECURSIVE DeleteAll(_, _, _)
DeleteAll(srcs, k, acc) ==
    IF k > Len(srcs) THEN acc
    ELSE LET r == DeleteTask_run(srcs[k], acc.rec)
         IN DeleteAll(srcs, k + 1, [rec |-> r.rec, n |-> acc.n + r.n])

\* step.run(marc_record); choice is the operator's pick of a target in an
\* interactive replacement (0: none)
StepRun(task, rec, choice) ==
    CASE task.kind = "replace" -> ReplaceTask_run(task, task.targets[1], rec)
      [] task.kind = "interactive" ->
            IF choice = 0 \/ ~ReplaceTask_match(task, rec) THEN [rec |-> rec, n |-> 0]
            ELSE ReplaceTask_run(task, task.targets[choice], rec)
      [] task.kind = "add" -> AddTask_run(task, rec)
      [] task.kind = "delete" -> DeleteAll(task.sources, 1, [rec |-> rec, n |-> 0])
      [] task.kind = "move" -> MoveTask_run(task, rec)
      [] OTHER -> [rec |-> rec, n |-> 0]

\* ------------------------------------------------------------------------
\* Inputs of the model
\* ------------------------------------------------------------------------
T650 == <<"6", "5", "0">>
T648 == <<"6", "4", "8">>
noubomn == <<"n", "b">>
Mo == <<"M", "o">>
Ma == <<"M", "a">>
Ki == <<"K", "i">>

INTERACTIVITY_NONE == "none"
INTERACTIVITY_STANDARD == "standard"
INTERACTIVITY_INCREASED == "increased"

\* the catalog as the search index and the ILS hold it when the job starts:
\* record 1 carries the source heading, record 2 carries it in lower case
\* next to the target heading, record 3 is a false positive of the search
Catalog ==
    <<  <<Field(T650, noubomn, Mo, None)>>,
        <<Field(T650, noubomn, <<"m", "o">>, None), Field(T650, noubomn, Ma, None)>>,
        <<Field(T650, noubomn, <<"Z", "u">>, None)>>  >>

\* what a caller passes to Job(...): action, concepts and the explicit query
JobInputs ==
    LET S == Concept(T650, noubomn, <<Mo>>)
        T == Concept(T650, noubomn, <<Ma>>)
        T2 == Concept(T650, noubomn, <<Ki>>)
        in(a, ss, ts, q) == [action |-> a, sources |-> ss, targets |-> ts, cql |-> q]
    IN { in("replace", <<S>>, <<T>>, None),
         in("replace", <<S>>, <<T, T2>>, None),
         in("replace", <<AmbiguousConcept(T650, noubomn, Mo)>>,
                       <<AmbiguousConcept(T650, noubomn, Ma)>>, None),
         in("replace", <<Concept(T648, noubomn, <<Mo>>)>>, <<T>>, None),
         in("replace", <<>>, <<T>>, <<"q">>),
         in("remove", <<S>>, <<>>, None),
         in("remove", <<>>, <<>>, None),
         in("remove", <<S>>, <<T>>, None),
         in("list", <<S>>, <<>>, None),
         in("interactive", <<S>>, <<T, T2>>, None),
         in("add", <<>>, <<T>>, None),
         in("add", <<>>, <<T>>, <<"q">>),
         in("custom", <<S>>, <<T2>>, None) }

\* the grep argument: none, or a text in upper case
GrepInputs == {None, <<"M", "A">>}

\* what the authority service can know: nothing, or the first target term
Authorities == {{}, {Ma}}

\* ------------------------------------------------------------------------
\* Job
\* ------------------------------------------------------------------------
VARIABLES
    pc,               \* position of the caller in Job(...) / Job.start()
    err,              \* the exception or abort that ended the job, "" if none
    action, source_concepts, target_concepts, cql_arg, grep_arg,
    cql_query,        \* self.cql_query, as the set of its AND-ed parts
    grep,             \* self.grep
    dry_run, interactivity,
    steps,            \* self.steps
    seen,             \* identifiers yielded by the search so far, in order
    valid_records,    \* the local set valid_records of start(), as the sequence of its members
    remaining,        \* positions of valid_records the loop of part 2 has not reached yet
    cur,              \* identifier of the record being processed, 0 if none
    record,           \* the fetched record being processed
    records_changed, changes_made,
    result,           \* what start() returned
    alma,             \* the records as the ILS holds them
    linked_to_cz,     \* identifiers of the records linked to the shared database
    log               \* calls to collaborators and steps, in order

vars == <<pc, err, action, source_concepts, target_concepts, cql_arg, grep_arg,
          cql_query, grep, dry_run, interactivity, steps, seen, valid_records,
          remaining, cur, record, records_changed, changes_made, result, alma,
          linked_to_cz, log>>

config == <<action, source_concepts, cql_arg, grep_arg, dry_run, interactivity,
            linked_to_cz>>

\* a log entry: a call `op` about record `id`; n is the argument or outcome,
\* c the count a step's run returned
Ev(op, id, n) == [op |-> op, id |-> id, n |-> n, c |-> 0]

Init ==
    /\ pc = "new"
    /\ err = ""
    /\ \E in \in JobInputs :
          /\ action = in.action
          /\ source_concepts = in.sources
          /\ target_concepts = in.targets
          /\ cql_arg = in.cql
    /\ grep_arg \in GrepInputs
    /\ dry_run \in BOOLEAN
    /\ interactivity \in {INTERACTIVITY_NONE, INTERACTIVITY_STANDARD, INTERACTIVITY_INCREASED}
    /\ cql_query = {}
    /\ grep = None
    /\ steps = <<>>
    /\ seen = <<>>
    /\ valid_records = <<>>
    /\ remaining = {}
    /\ cur = 0
    /\ record = <<>>
    /\ records_changed = 0
    /\ changes_made = 0
    /\ result = {}
    /\ alma = Catalog
    /\ linked_to_cz = {}
    /\ log = <<>>

\* re.sub('[-–]', ' ', term)
Dehyphen(term) == [i \in 1..Len(term) |-> IF term[i] = "-" THEN " " ELSE term[i]]

\* prepare_cql_query: the set of query parts (joined by AND after sorting)
prepare_cql_query(concepts) ==
    {<<"s", "=">> \o Dehyphen(concepts[k].term) : k \in 1..Len(concepts)}
    \cup {<<"v", "=">> \o concepts[k].sf["2"] : k \in 1..Len(concepts)}

\* authorize_concept: attach an identifier when the vocabulary knows the term
authorize_concept(concept, known) ==
    IF concept.term \in known
    THEN [concept EXCEPT !.sf["0"] = <<"1">>]
    ELSE concept

\* variant: the constructor does not call authorize
AuthorizeCalls_Skipped(act, targets) == <<>>

\* Job.authorize: the concepts sent to the authority service, in order
AuthorizeCalls(act, targets) ==
    IF act = "remove" \/ Len(targets) = 0 THEN <<>>
    ELSE [k \in 1..Len(targets) |-> Ev("authorize", 0, k)]

\* Job.authorize: the target concepts afterwards
authorize(act, targets, known) ==
    IF act = "remove" THEN targets
    ELSE [k \in 1..Len(targets) |-> authorize_concept(targets[k], known)]

\* variant: the exact-match task is generated for x as well
generate_replace_tasks_ExactForX(src, dst) ==
    IF /\ Len(src.components) = 1 /\ Len(dst.components) = 1
       /\ src.sf["a_or_x"] # None /\ dst.sf["a_or_x"] # None
    THEN << ReplaceTask(set_a_or_x_to(src, "a"), set_a_or_x_to(dst, "a"), FALSE),
            ReplaceTask(set_a_or_x_to(src, "a"), set_a_or_x_to(dst, "a"), TRUE),
            ReplaceTask(set_a_or_x_to(src, "x"), set_a_or_x_to(dst, "x"), FALSE),
            ReplaceTask(set_a_or_x_to(src, "x"), set_a_or_x_to(dst, "x"), TRUE) >>
    ELSE << ReplaceTask(src, dst, FALSE) >>

\* Job.generate_replace_tasks
generate_replace_tasks(src, dst) ==
    IF /\ Len(src.components) = 1 /\ Len(dst.components) = 1
       /\ src.sf["a_or_x"] # None /\ dst.sf["a_or_x"] # None
    THEN << ReplaceTask(set_a_or_x_to(src, "a"), set_a_or_x_to(dst, "a"), FALSE),
            ReplaceTask(set_a_or_x_to(src, "a"), set_a_or_x_to(dst, "a"), TRUE),
            ReplaceTask(set_a_or_x_to(src, "x"), set_a_or_x_to(dst, "x"), TRUE) >>
    ELSE << ReplaceTask(src, dst, FALSE) >>

\* indexing an empty list in Job.generate_steps
StepsIndexError(act, sources, targets) ==
    \/ act = "interactive" /\ Len(sources) = 0
    \/ act = "replace" /\ (Len(sources) = 0 \/ Len(targets) = 0)

\* Job.generate_steps
generate_steps(act, sources, targets) ==
    CASE act = "custom" ->
            <<DeleteTask(sources)>> \o [k \in 1..Len(targets) |-> AddTask(targets[k])]
      [] act = "add" -> [k \in 1..Len(targets) |-> AddTask(targets[k])]
      [] act = "remove" -> <<DeleteTask(sources)>>
      [] act = "interactive" -> <<InteractiveReplaceTask(sources[1], targets)>>
      [] act = "list" -> <<ListTask(sources)>>
      [] act = "replace" ->
            generate_replace_tasks(sources[1], targets[1])
            \o [k \in 1..(Len(targets) - 1) |-> AddTask(targets[k + 1])]
      [] OTHER -> <<>>

\* the 648 guard at the top of Job.__init__
Disabled648(sources) ==
    /\ Len(sources) > 0
    /\ sources[1].tag = T648
    /\ sources[1].sf["2"] = noubomn

\* self.cql_query = cql_query or prepare_cql_query(self.source_concepts)
CqlQuery(arg, sources) ==
    IF arg # None /\ Len(arg) > 0 THEN {arg} ELSE prepare_cql_query(sources)

\* variant: the filter text is kept as given
GrepInit_AsGiven(arg) == arg

\* self.grep = grep, lower-cased when given
GrepInit(arg) == IF arg # None THEN Lower(arg) ELSE None

\* Job.__init__ raising before anything is sent to a collaborator
ConstructDisabled ==
    /\ pc = "new"
    /\ Disabled648(source_concepts)
    /\ pc' = "error"
    /\ err' = "Disabled648"
    /\ UNCHANGED <<config, target_concepts, cql_query, grep, steps, seen, valid_records,
                   remaining, cur, record, records_changed, changes_made, result,
                   alma, log>>

\* Job.__init__ raising 'No query given.'
ConstructNoQuery ==
    /\ pc = "new"
    /\ ~Disabled648(source_concepts)
    /\ CqlQuery(cql_arg, source_concepts) = {}
    /\ \E known \in Authorities :
          target_concepts' = authorize(action, target_concepts, known)
    /\ log' = log \o AuthorizeCalls(action, target_concepts)
    /\ cql_query' = {}
    /\ pc' = "error"
    /\ err' = "NoQuery"
    /\ UNCHANGED <<config, grep, steps, seen, valid_records, remaining, cur, record,
                   records_changed, changes_made, result, alma>>

\* Job.__init__ failing in generate_steps on a missing concept
ConstructIndexError ==
    /\ pc = "new"
    /\ ~Disabled648(source_concepts)
    /\ CqlQuery(cql_arg, source_concepts) # {}
    /\ StepsIndexError(action, source_concepts, target_concepts)
    /\ \E known \in Authorities :
          target_concepts' = authorize(action, target_concepts, known)
    /\ log' = log \o AuthorizeCalls(action, target_concepts)
    /\ cql_query' = CqlQuery(cql_arg, source_concepts)
    /\ grep' = GrepInit(grep_arg)
    /\ pc' = "error"
    /\ err' = "IndexError"
    /\ UNCHANGED <<config, steps, seen, valid_records, remaining, cur, record,
                   records_changed, changes_made, result, alma>>

\* Job.__init__ succeeding
Construct ==
    /\ pc = "new"
    /\ ~Disabled648(source_concepts)
    /\ CqlQuery(cql_arg, source_concepts) # {}
    /\ ~StepsIndexError(action, source_concepts, target_concepts)
    /\ \E known \in Authorities :
          /\ target_concepts' = authorize(action, target_concepts, known)
          /\ steps' = generate_steps(action, source_concepts,
                                     authorize(action, target_concepts, known))
    /\ log' = log \o AuthorizeCalls(action, target_concepts)
    /\ cql_query' = CqlQuery(cql_arg, source_concepts)
    /\ grep' = GrepInit(grep_arg)
    /\ pc' = "built"
    /\ UNCHANGED <<config, err, seen, valid_records, remaining, cur, record,
                   records_changed, changes_made, result, alma>>

\* ------------------------------------------------------------------------
\* Job.start, part 1: search and filter
\* ------------------------------------------------------------------------
Range(q) == {q[i] : i \in 1..Len(q)}

\* the loop over self.steps that filters one candidate record
RECURSIVE FilterLoop(_, _, _, _, _)
FilterLoop(ss, k, rec, record_matching, grep_matching) ==
    IF k > Len(ss) THEN [record_matching |-> record_matching,
                         grep_matching |-> grep_matching]
    ELSE FilterLoop(ss, k + 1, rec,
            record_matching \/ StepMatch(ss[k], rec),
            grep_matching \/ \E i \in 1..Len(rec) :
                                grep = None \/ IsSubstring(grep, Lower(FieldStr(rec[i]))))

\* `if record_matching and grep_matching`
Retained(rec) ==
    LET f == FilterLoop(steps, 1, rec, FALSE, FALSE)
    IN f.record_matching /\ f.grep_matching

\* variant: valid_records is a list and the identifier is appended
list_append(valid, id) == Append(valid, id)

\* valid_records.add(marc_record.id) on a set
set_add(valid, id) == IF id \in Range(valid) THEN valid ELSE Append(valid, id)

\* the search is sent to the SRU service
StartSearch ==
    /\ pc = "built"
    /\ pc' = "searching"
    /\ log' = Append(log, Ev("search", 0, 0))
    /\ UNCHANGED <<config, err, target_concepts, cql_query, grep, steps, seen,
                   valid_records, remaining, cur, record, records_changed,
                   changes_made, result, alma>>

\* variant: every record is fetched as the search yields it
SearchYield_Fetching ==
    /\ pc = "searching"
    /\ Len(seen) < MaxResults
    /\ \E id \in 1..Len(Catalog) :
          /\ seen' = Append(seen, id)
          /\ valid_records' = IF Retained(Catalog[id])
                              THEN set_add(valid_records, id) ELSE valid_records
          /\ log' = Append(log, Ev("get", id, 1))
    /\ UNCHANGED <<config, pc, err, target_concepts, cql_query, grep, steps, remaining,
                   cur, record, records_changed, changes_made, result, alma>>

\* one turn of `for marc_record in self.sru.search(...)`
SearchYield ==
    /\ pc = "searching"
    /\ Len(seen) < MaxResults
    /\ \E id \in 1..Len(Catalog) :
          /\ seen' = Append(seen, id)
          /\ valid_records' = IF Retained(Catalog[id])
                              THEN set_add(valid_records, id) ELSE valid_records
    /\ UNCHANGED <<config, pc, err, target_concepts, cql_query, grep, steps, remaining,
                   cur, record, records_changed, changes_made, result, alma, log>>

\* variant: the handler returns what was retained so far
TooManyResult_Truncated(valid) == Range(valid)

\* what start() returns from `except TooManyResults`
TooManyResult(valid) == {}

\* the search raises TooManyResults
SearchTooMany ==
    /\ pc = "searching"
    /\ result' = TooManyResult(valid_records)
    /\ err' = "TooManyResults"
    /\ pc' = "done"
    /\ UNCHANGED <<config, target_concepts, cql_query, grep, steps, seen, valid_records,
                   remaining, cur, record, records_changed, changes_made, alma, log>>

\* variant: the batch question does not look at the action
NeedsConfirm_AnyAction(act, dry, inter) ==
    /\ ~dry
    /\ inter = INTERACTIVITY_STANDARD

\* the batch question is asked for the actions that change records
NeedsConfirm(act, dry, inter) ==
    /\ act \notin {"interactive", "list"}
    /\ ~dry
    /\ inter = INTERACTIVITY_STANDARD

\* the search sequence is exhausted and nothing was retained
SearchEndEmpty ==
    /\ pc = "searching"
    /\ Len(valid_records) = 0
    /\ result' = {}
    /\ pc' = "done"
    /\ UNCHANGED <<config, err, target_concepts, cql_query, grep, steps, seen,
                   valid_records, remaining, cur, record, records_changed,
                   changes_made, alma, log>>

\* the search sequence is exhausted: on to the confirmation or to part 2
SearchEnd ==
    /\ pc = "searching"
    /\ Len(valid_records) # 0
    /\ IF NeedsConfirm(action, dry_run, interactivity)
       THEN /\ pc' = "confirming"
            /\ UNCHANGED <<remaining, records_changed, changes_made>>
       ELSE /\ pc' = "applying"
            /\ remaining' = 1..Len(valid_records)
            /\ records_changed' = 0
            /\ changes_made' = 0
    /\ UNCHANGED <<config, err, target_concepts, cql_query, grep, steps, seen,
                   valid_records, cur, record, result, alma, log>>

\* yesno('Continue?') answered yes
ConfirmYes ==
    /\ pc = "confirming"
    /\ log' = Append(log, Ev("confirm", 0, 1))
    /\ pc' = "applying"
    /\ remaining' = 1..Len(valid_records)
    /\ records_changed' = 0
    /\ changes_made' = 0
    /\ UNCHANGED <<config, err, target_concepts, cql_query, grep, steps, seen,
                   valid_records, cur, record, result, alma>>

\* yesno('Continue?') answered no
ConfirmNo ==
    /\ pc = "confirming"
    /\ log' = Append(log, Ev("confirm", 0, 0))
    /\ pc' = "done"
    /\ err' = "Declined"
    /\ result' = {}
    /\ UNCHANGED <<config, target_concepts, cql_query, grep, steps, seen, valid_records,
                   remaining, cur, record, records_changed, changes_made, alma>>

\* ------------------------------------------------------------------------
\* Job.start, part 2: fetch, change and save every retained record
\* ------------------------------------------------------------------------
\* the loop over self.steps of Job.update_record
RECURSIVE RunSteps(_, _, _, _)
RunSteps(ss, k, acc, choice) ==
    IF k > Len(ss) THEN acc
    ELSE LET r == StepRun(ss[k], acc.rec, choice)
         IN RunSteps(ss, k + 1,
                     [rec |-> r.rec, n |-> acc.n + r.n,
                      ran |-> Append(acc.ran, [k |-> k, c |-> r.n])],
                     choice)

\* the operator's possible picks in an interactive replacement
Choices == IF action = "interactive" THEN 0..Len(target_concepts) ELSE {0}

\* the record and the change count after all steps of update_record
Updated(choice) ==
    RunSteps(steps, 1, [rec |-> record, n |-> 0, ran |-> <<>>], choice)

\* the log entries of the steps run on the current record
RunEvents(u) ==
    [i \in 1..Len(u.ran) |-> [op |-> "run", id |-> cur, n |-> u.ran[i].k, c |-> u.ran[i].c]]

\* variant: the record is saved whatever the change count
ShouldPersist_Always(changes) == TRUE

\* `if changes == 0: return 0` does not hold
ShouldPersist(changes) == changes # 0

\* self.ils.get_record(mms_id) returns the record
GetRecord ==
    /\ pc = "applying"
    /\ \E p \in remaining :
          /\ cur' = valid_records[p]
          /\ record' = alma[valid_records[p]]
          /\ remaining' = remaining \ {p}
          /\ log' = Append(log, Ev("get", valid_records[p], 1))
    /\ pc' = "updating"
    /\ UNCHANGED <<config, err, target_concepts, cql_query, grep, steps, seen,
                   valid_records, records_changed, changes_made, result, alma>>

\* variant: the identifier mismatch is skipped over and the loop goes on
GetRecordMismatch_Skipped ==
    /\ pc = "applying"
    /\ \E p \in remaining :
          /\ remaining' = remaining \ {p}
          /\ log' = Append(log, Ev("get", valid_records[p], 0))
    /\ pc' = "applying"
    /\ err' = "Mismatch"
    /\ UNCHANGED <<config, target_concepts, cql_query, grep, steps, seen, valid_records,
                   cur, record, records_changed, changes_made, result, alma>>

\* self.ils.get_record(mms_id) fails: the response holds another identifier
GetRecordMismatch ==
    /\ pc = "applying"
    /\ \E p \in remaining :
          /\ remaining' = remaining \ {p}
          /\ log' = Append(log, Ev("get", valid_records[p], 0))
    /\ pc' = "failed"
    /\ err' = "Mismatch"
    /\ UNCHANGED <<config, target_concepts, cql_query, grep, steps, seen, valid_records,
                   cur, record, records_changed, changes_made, result, alma>>

\* update_record returns 0: the steps changed nothing
UpdateNoChange ==
    /\ pc = "updating"
    /\ \E choice \in Choices :
          \E u \in {Updated(choice)} :
             /\ ~ShouldPersist(u.n)
             /\ log' = log \o RunEvents(u)
    /\ pc' = "applying"
    /\ cur' = 0
    /\ record' = <<>>
    /\ UNCHANGED <<config, err, target_concepts, cql_query, grep, steps, seen,
                   valid_records, remaining, records_changed, changes_made, result, alma>>

\* variant: the answer to 'Update this record?' is not looked at
UpdateDeclined_Saves ==
    /\ pc = "updating"
    /\ interactivity = INTERACTIVITY_INCREASED
    /\ \E choice \in Choices :
          \E u \in {Updated(choice)} :
             /\ ShouldPersist(u.n)
             /\ log' = log \o RunEvents(u) \o <<Ev("ask", cur, 0), Ev("put", cur, u.n)>>
             /\ alma' = [alma EXCEPT ![cur] = u.rec]
    /\ pc' = "applying"
    /\ cur' = 0
    /\ record' = <<>>
    /\ UNCHANGED <<config, err, target_concepts, cql_query, grep, steps, seen,
                   valid_records, remaining, records_changed, changes_made, result>>

\* update_record returns 0: the operator answers no to 'Update this record?'
UpdateDeclined ==
    /\ pc = "updating"
    /\ interactivity = INTERACTIVITY_INCREASED
    /\ \E choice \in Choices :
          \E u \in {Updated(choice)} :
             /\ ShouldPersist(u.n)
             /\ log' = log \o RunEvents(u) \o <<Ev("ask", cur, 0)>>
    /\ pc' = "applying"
    /\ cur' = 0
    /\ record' = <<>>
    /\ UNCHANGED <<config, err, target_concepts, cql_query, grep, steps, seen,
                   valid_records, remaining, records_changed, changes_made, result, alma>>

\* the log entry of a confirmed 'Update this record?', if it is asked
AskEvents == IF interactivity = INTERACTIVITY_INCREASED THEN <<Ev("ask", cur, 1)>> ELSE <<>>

\* variant: the two counters are taken for each other
UpdatePut_CountersSwapped ==
    /\ pc = "updating"
    /\ \E choice \in Choices :
          \E u \in {Updated(choice)} :
             /\ ShouldPersist(u.n)
             /\ log' = log \o RunEvents(u) \o AskEvents \o <<Ev("put", cur, u.n)>>
             /\ alma' = [alma EXCEPT ![cur] = u.rec]
             /\ records_changed' = IF u.n > 0 THEN records_changed + u.n ELSE records_changed
             /\ changes_made' = IF u.n > 0 THEN changes_made + 1 ELSE changes_made
    /\ pc' = "applying"
    /\ cur' = 0
    /\ record' = <<>>
    /\ UNCHANGED <<config, err, target_concepts, cql_query, grep, steps, seen,
                   valid_records, remaining, result>>

\* update_record saves the record and start() counts it
UpdatePut ==
    /\ pc = "updating"
    /\ \E choice \in Choices :
          \E u \in {Updated(choice)} :
             /\ ShouldPersist(u.n)
             /\ log' = log \o RunEvents(u) \o AskEvents \o <<Ev("put", cur, u.n)>>
             /\ alma' = [alma EXCEPT ![cur] = u.rec]
             /\ records_changed' = IF u.n > 0 THEN records_changed + 1 ELSE records_changed
             /\ changes_made' = IF u.n > 0 THEN changes_made + u.n ELSE changes_made
    /\ pc' = "applying"
    /\ cur' = 0
    /\ record' = <<>>
    /\ UNCHANGED <<config, err, target_concepts, cql_query, grep, steps, seen,
                   valid_records, remaining, result>>

\* variant: the error of put_record is swallowed and the loop goes on
UpdatePutFails_Swallowed ==
    /\ pc = "updating"
    /\ \E choice \in Choices :
          \E u \in {Updated(choice)} :
             /\ ShouldPersist(u.n)
             /\ log' = log \o RunEvents(u) \o AskEvents \o <<Ev("put_failed", cur, u.n)>>
    /\ pc' = "applying"
    /\ err' = "PutFailed"
    /\ UNCHANGED <<config, target_concepts, cql_query, grep, steps, seen, valid_records,
                   remaining, cur, record, records_changed, changes_made, result, alma>>

\* put_record raises: the error leaves update_record and start()
UpdatePutFails ==
    /\ pc = "updating"
    /\ \E choice \in Choices :
          \E u \in {Updated(choice)} :
             /\ ShouldPersist(u.n)
             /\ log' = log \o RunEvents(u) \o AskEvents \o <<Ev("put_failed", cur, u.n)>>
    /\ pc' = "failed"
    /\ err' = "PutFailed"
    /\ UNCHANGED <<config, target_concepts, cql_query, grep, steps, seen, valid_records,
                   remaining, cur, record, records_changed, changes_made, result, alma>>

\* the loop is over: start() returns valid_records
Finish ==
    /\ pc = "applying"
    /\ remaining = {}
    /\ pc' = "done"
    /\ result' = Range(valid_records)
    /\ UNCHANGED <<config, err, target_concepts, cql_query, grep, steps, seen,
                   valid_records, remaining, cur, record, records_changed,
                   changes_made, alma, log>>

Next ==
    \/ ConstructDisabled
    \/ ConstructNoQuery
    \/ ConstructIndexError
    \/ Construct
    \/ StartSearch
    \/ SearchYield
    \/ SearchTooMany
    \/ SearchEndEmpty
    \/ SearchEnd
    \/ ConfirmYes
    \/ ConfirmNo
    \/ GetRecord
    \/ GetRecordMismatch
    \/ UpdateNoChange
    \/ UpdateDeclined
    \/ UpdatePut
    \/ UpdatePutFails
    \/ Finish

Spec == Init /\ [][Next]_vars

\* ------------------------------------------------------------------------
\* The tasks on their own: one task applied to one record
\* ------------------------------------------------------------------------
\* longest record of the task-level specification
MaxFields == 2

lcsh == <<"l", "c">>
FieldWith(field, code, value) == [field EXCEPT !.sf[code] = value]
ConceptWith(concept, code, value) == [concept EXCEPT !.sf[code] = value]

\* the fields a record is made of: the source heading as written, in lower
\* case, with an extra subdivision, with an identifier, in another
\* vocabulary, under another tag; the target heading; an unrelated heading
FieldPool ==
    { Field(T650, noubomn, Mo, None),
      Field(T650, noubomn, <<"m", "o">>, None),
      Field(T650, noubomn, Mo, Ki),
      FieldWith(Field(T650, noubomn, Mo, None), "0", <<"9">>),
      Field(T650, lcsh, Mo, None),
      Field(T648, noubomn, Mo, None),
      Field(T650, noubomn, Ma, None),
      Field(T650, noubomn, Ma, Ki),
      FieldWith(Field(T650, noubomn, Ma, None), "0", <<"1">>),
      Field(T650, noubomn, <<"Z", "u">>, None) }

TaskRecords == UNION {[1..n -> FieldPool] : n \in 0..MaxFields}

TaskInputs ==
    LET S == Concept(T650, noubomn, <<Mo>>)
        T == Concept(T650, noubomn, <<Ma>>)
    IN { ReplaceTask(S, T, FALSE),
         ReplaceTask(S, ConceptWith(T, "0", <<"1">>), FALSE),
         ReplaceTask(S, T, TRUE),
         ReplaceTask(Concept(T650, noubomn, <<Mo, Ki>>), T, FALSE),
         ReplaceTask(S, Concept(T650, noubomn, <<Mo, Ki>>), TRUE),
         ReplaceTask(set_a_or_x_to(AmbiguousConcept(T650, noubomn, Ki), "x"),
                     set_a_or_x_to(AmbiguousConcept(T650, noubomn, Mo), "x"), TRUE),
         AddTask(T),
         AddTask(ConceptWith(T, "0", <<"1">>)),
         MoveTask(S, T648),
         DeleteTask(<<S>>) }

\* the concepts generate_replace_tasks is given: ambiguous, plain, and of two
\* components
GenConcepts(term) ==
    { AmbiguousConcept(T650, noubomn, term),
      Concept(T650, noubomn, <<term>>),
      Concept(T650, noubomn, <<term, Ki>>) }

\* what every run hands to remove_duplicates as its last statement
DedupArgs(task) ==
    CASE task.kind = "replace" ->
            [tag |-> task.source.tag, query |-> make_query(task.source, task.targets[1])]
      [] task.kind = "add" ->
            [tag |-> task.source.tag,
             query |-> [c \in {"2", "a", "x"} |-> QEntry(task.source.sf[c])]]
      [] task.kind = "move" ->
            [tag |-> task.dest_tag, query |-> make_query(task.source, NoTarget)]

\* the job variables the tasks do not touch
Idle ==
    /\ err = "" /\ action = "task" /\ cql_arg = None /\ grep_arg = None
    /\ cql_query = {} /\ grep = None /\ dry_run = FALSE
    /\ interactivity = INTERACTIVITY_NONE
    /\ seen = <<>> /\ valid_records = <<>> /\ remaining = {} /\ cur = 0
    /\ records_changed = 0 /\ changes_made = 0 /\ result = {}
    /\ linked_to_cz = {}

idle == <<err, action, cql_arg, grep_arg, cql_query, grep, dry_run, interactivity,
          seen, valid_records, remaining, cur, records_changed, changes_made, result,
          linked_to_cz>>

\* a task and a record (alma keeps the record as it was), or a pair of
\* concepts for generate_replace_tasks
TaskInit ==
    /\ Idle
    /\ log = <<>>
    /\ \/ /\ pc = "t_new"
          /\ \E task \in TaskInputs : steps = <<task>>
          /\ \E rec \in TaskRecords : alma = <<rec>> /\ record = rec
          /\ source_concepts = <<>> /\ target_concepts = <<>>
       \/ /\ pc = "g_new"
          /\ steps = <<>> /\ alma = <<>> /\ record = <<>>
          /\ \E src \in GenConcepts(Mo) : source_concepts = <<src>>
          /\ \E dst \in GenConcepts(Ma) : target_concepts = <<dst>>

\* the Replace task that undoes `task`
Reverse(task) == ReplaceTask(task.targets[1], task.source, task.ignore_extra_components)

Bit(b) == IF b THEN 1 ELSE 0

Min(S) == CHOOSE i \in S : \A j \in S : i <= j

\* remove_duplicates called on the record, with the arguments the task's run
\* passes; called a second time on what the first call left
T_Dedup ==
    /\ pc \in {"t_new", "t_dedup1"}
    /\ steps[1].kind \in {"replace", "add", "move"}
    /\ LET args == DedupArgs(steps[1])
           d == remove_duplicates(record, args.tag, args.query)
       IN /\ record' = d.rec
          /\ log' = Append(log, Ev("dedup", 0, d.dups))
    /\ pc' = IF pc = "t_new" THEN "t_dedup1" ELSE "t_dedup2"
    /\ UNCHANGED <<idle, steps, alma, source_concepts, target_concepts>>

\* task.run(marc_record)
T_Run ==
    /\ pc = "t_new"
    /\ LET u == StepRun(steps[1], record, 0)
       IN /\ record' = u.rec
          /\ log' = Append(log, [Ev("run", 0, 1) EXCEPT !.c = u.n])
    /\ pc' = "t_ran"
    /\ UNCHANGED <<idle, steps, alma, source_concepts, target_concepts>>

\* after a Replace has run, the run of the reverse Replace
T_RunBack ==
    /\ pc = "t_ran"
    /\ steps[1].kind = "replace"
    /\ LET u == StepRun(Reverse(steps[1]), record, 0)
       IN /\ record' = u.rec
          /\ log' = Append(log, [Ev("run", 0, 2) EXCEPT !.c = u.n])
    /\ pc' = "t_back"
    /\ UNCHANGED <<idle, steps, alma, source_concepts, target_concepts>>

\* ReplaceTask.match of the record, without (n) and with (c)
\* ignore_extra_components
T_Match ==
    /\ pc = "t_new"
    /\ steps[1].kind = "replace"
    /\ log' = Append(log,
          [Ev("match", 0,
              Bit(ReplaceTask_match([steps[1] EXCEPT !.ignore_extra_components = FALSE],
                                    record)))
           EXCEPT !.c = Bit(ReplaceTask_match(
                               [steps[1] EXCEPT !.ignore_extra_components = TRUE],
                               record))])
    /\ pc' = "t_matched"
    /\ UNCHANGED <<idle, steps, alma, record, source_concepts, target_concepts>>

\* Job.generate_replace_tasks(src, dst)
T_Generate ==
    /\ pc = "g_new"
    /\ steps' = generate_replace_tasks(source_concepts[1], target_concepts[1])
    /\ pc' = "g_done"
    /\ UNCHANGED <<idle, alma, record, log, source_concepts, target_concepts>>

\* task.match(marc_record) on the record the run has left
T_MatchAfterRun ==
    /\ pc = "t_ran"
    /\ log' = Append(log, Ev("match", 0, Bit(StepMatch(steps[1], record))))
    /\ pc' = "t_ran_matched"
    /\ UNCHANGED <<idle, steps, alma, record, source_concepts, target_concepts>>

\* task.run(marc_record) a second time; alma keeps the record the first run
\* has left behind the original
T_RunAgain ==
    /\ pc = "t_ran"
    /\ LET u == StepRun(steps[1], record, 0)
       IN /\ record' = u.rec
          /\ log' = Append(log, [Ev("run", 0, 1) EXCEPT !.c = u.n])
    /\ alma' = Append(alma, record)
    /\ pc' = "t_ran2"
    /\ UNCHANGED <<idle, steps, source_concepts, target_concepts>>

TaskNext ==
    \/ T_Dedup \/ T_Run \/ T_RunBack \/ T_Match \/ T_Generate
    \/ T_MatchAfterRun \/ T_RunAgain

TaskSpec == TaskInit /\ [][TaskNext]_vars

\* ------------------------------------------------------------------------
\* Vocabulary of the properties
\* ------------------------------------------------------------------------
LogAt(op) == {i \in 1..Len(log) : log[i].op = op}
\* every call of get_record, and those that returned a record
Gets == LogAt("get")
\* every call of put_record: the ones that returned and the ones that raised
PutCalls == LogAt("put") \cup LogAt("put_failed")
\* calls that reach a collaborator over the network
NetworkCalls == LogAt("authorize") \cup LogAt("search") \cup Gets \cup PutCalls
\* the action changes records
Mutating == action \notin {"list", "interactive"}

RECURSIVE SumN(_)
SumN(idx) ==
    IF idx = {} THEN 0
    ELSE LET i == CHOOSE j \in idx : TRUE IN log[i].n + SumN(idx \ {i})

\* sum of the counts returned by the steps run after the get at position i
RunTotal(i) ==
    LET RECURSIVE tot(_)
        tot(k) == IF k > Len(steps) \/ i + k > Len(log) THEN 0
                  ELSE log[i + k].c + tot(k + 1)
    IN tot(1)

\* ------------------------------------------------------------------------
\* C1  (stated as the claim reads; the code does not satisfy it)
\* In a dry run no execution of start / update_record calls put_record.
C1_DryRunNeverPuts == dry_run => PutCalls = {}

\* ------------------------------------------------------------------------
\* C2  When the search raises TooManyResults, at whatever point of the
\* sequence, start returns an empty result, the identifiers retained so far
\* are discarded and neither get_record nor put_record is called.
C2_TooManyResultsAborts ==
    err = "TooManyResults" =>
        /\ pc = "done"
        /\ result = {}
        /\ Gets = {}
        /\ PutCalls = {}

\* TooManyResults was raised after identifiers had been retained
C2_Witness == err = "TooManyResults" /\ Len(valid_records) > 0 /\ pc = "done"

\* ------------------------------------------------------------------------
\* some step of the job matches the record
C3_StepMatches(rec) == \E k \in 1..Len(steps) : StepMatch(steps[k], rec)

\* no grep filter is given, or it occurs in some field whatever the case
C3_GrepMatches(rec) ==
    grep_arg = None
    \/ \E i \in 1..Len(rec) : IsSubstring(Lower(grep_arg), Lower(FieldStr(rec[i])))

\* C3  A candidate is retained iff at least one step matches it and, when a
\* grep filter is given, the filter is case-insensitively a substring of the
\* serialized form of at least one of its fields.
C3_RetentionRule ==
    pc \notin {"new", "error"} =>
        \A k \in 1..Len(seen) :
            seen[k] \in Range(valid_records)
            <=> (C3_StepMatches(Catalog[seen[k]]) /\ C3_GrepMatches(Catalog[seen[k]]))

\* with a grep filter given, one candidate was retained and another, which a
\* step matches, was dropped by the filter
C3_Witness ==
    /\ grep_arg # None
    /\ \E k \in 1..Len(seen) : seen[k] \in Range(valid_records)
    /\ \E k \in 1..Len(seen) :
          seen[k] \notin Range(valid_records) /\ C3_StepMatches(Catalog[seen[k]])

\* ------------------------------------------------------------------------
\* C4  For a mutating action with a non-empty retained set, no dry run and
\* standard interactivity, the batch question is asked exactly once and
\* before any get_record; a refusal ends start with an empty result and
\* without get_record or put_record. For list and interactive it is never
\* asked.
C4_BatchConfirmation ==
    /\ Cardinality(LogAt("confirm")) <= 1
    /\ ~Mutating => LogAt("confirm") = {}
    /\ (Mutating /\ ~dry_run /\ interactivity = INTERACTIVITY_STANDARD) =>
          /\ \A i \in Gets : \E j \in LogAt("confirm") : j < i
          /\ ( /\ Len(valid_records) > 0
               /\ \/ pc \in {"applying", "updating", "failed"}
                  \/ pc = "done" /\ err \in {"", "Declined"} )
             => Cardinality(LogAt("confirm")) = 1
    /\ err = "Declined" => pc = "done" /\ result = {} /\ Gets = {} /\ PutCalls = {}

\* the question was asked and answered yes, and records were then fetched
C4_Witness ==
    /\ Mutating /\ ~dry_run /\ interactivity = INTERACTIVITY_STANDARD
    /\ Cardinality(LogAt("confirm")) = 1
    /\ Cardinality(Gets) = 2
    /\ pc = "done"

\* ------------------------------------------------------------------------
\* C5  When put_record fails for a retained record, the error leaves start:
\* nothing is fetched or saved afterwards, what was saved before stays saved,
\* and the failing record is counted in neither counter.
C5_PutFailureAborts ==
    err = "PutFailed" =>
        /\ pc = "failed"
        /\ LogAt("put_failed") = {Len(log)}
        /\ alma[cur] = Catalog[cur]
        /\ \A i \in LogAt("put") :
              alma[log[i].id] \in {RunSteps(steps, 1,
                                      [rec |-> Catalog[log[i].id], n |-> 0, ran |-> <<>>],
                                      choice).rec : choice \in Choices}
        /\ records_changed = Cardinality(LogAt("put"))
        /\ changes_made = SumN(LogAt("put"))

\* put_record failed for the second record after the first had been saved
C5_Witness ==
    /\ err = "PutFailed"
    /\ LogAt("put") # {}
    /\ \E i \in LogAt("put") : alma[log[i].id] # Catalog[log[i].id]

\* ------------------------------------------------------------------------
\* C6  update_record runs every step once, in the registered order, and sums
\* the returned counts; when the sum is zero put_record is not called for the
\* record and both counters stay as they were.
C6_StepsRunInOrder ==
    /\ \A i \in Gets :
          (log[i].n = 1 /\ i < Len(log)) =>
              /\ \A k \in 1..Len(steps) :
                    /\ i + k <= Len(log)
                    /\ log[i + k].op = "run"
                    /\ log[i + k].id = log[i].id
                    /\ log[i + k].n = k
              /\ i + Len(steps) + 1 <= Len(log) =>
                    /\ log[i + Len(steps) + 1].op # "run"
                    /\ RunTotal(i) = 0 =>
                          log[i + Len(steps) + 1].op \notin {"ask", "put", "put_failed"}
                    /\ log[i + Len(steps) + 1].op \in {"put", "put_failed"} =>
                          log[i + Len(steps) + 1].n = RunTotal(i)
    /\ records_changed = Cardinality(LogAt("put"))
    /\ changes_made = SumN(LogAt("put"))

\* one record whose steps returned 0 in sum was skipped, another was saved
C6_Witness ==
    /\ pc = "done"
    /\ \E i \in Gets : log[i].n = 1 /\ RunTotal(i) = 0
    /\ Cardinality(Gets) = 2
    /\ records_changed = 1

\* ------------------------------------------------------------------------
\* C7  (stated as the claim reads; refuted)
\* After an identifier mismatch of get_record no record of the batch has been
\* saved by the job.
C7_NoPartialApplication == err = "Mismatch" => LogAt("put") = {}

\* C7 as amended: an identifier mismatch ends the job at once, without saving
\* that record or any later one; records saved before it stay saved.
C7_MismatchIsFatal ==
    err = "Mismatch" =>
        /\ pc = "failed"
        /\ log[Len(log)].op = "get" /\ log[Len(log)].n = 0
        /\ \A i \in Gets : log[i].n = 0 => i = Len(log)
        /\ \A i \in PutCalls : log[i].id # log[Len(log)].id
        /\ alma[log[Len(log)].id] = Catalog[log[Len(log)].id]
        /\ \A i \in LogAt("put") :
              alma[log[i].id] \in {RunSteps(steps, 1,
                                      [rec |-> Catalog[log[i].id], n |-> 0, ran |-> <<>>],
                                      choice).rec : choice \in Choices}

\* the mismatch hit the second record after the first had been saved
C7_Witness ==
    /\ err = "Mismatch"
    /\ \E i \in LogAt("put") : alma[log[i].id] # Catalog[log[i].id]

\* ------------------------------------------------------------------------
\* C8  (stated as the claim reads; the code does not satisfy it)
\* A configuration or usage error (the 648 guard, 'No query given.') is raised
\* before any call to the authority, search or catalog collaborator.
C8_ErrorBeforeNetwork == err \in {"Disabled648", "NoQuery"} => NetworkCalls = {}

\* ------------------------------------------------------------------------
\* C9  No identifier is passed to get_record twice in one run, even when the
\* search yields it several times, and every put_record follows the
\* get_record of the same record with no other get_record in between.
C9_FetchOncePerRecord ==
    /\ \A i, j \in Gets : log[i].id = log[j].id => i = j
    /\ \A j \in PutCalls :
          \E i \in Gets :
             /\ i < j
             /\ log[i].id = log[j].id
             /\ log[i].n = 1
             /\ \A m \in (i + 1)..(j - 1) : log[m].op \notin {"get", "put", "put_failed"}

\* the search yielded a retained identifier twice; it was fetched and saved
C9_Witness ==
    /\ pc = "done"
    /\ \E k, m \in 1..Len(seen) : k # m /\ seen[k] = seen[m]
    /\ LogAt("put") # {}

subject_fields(rec, term, vocabulary, tags, exact_only) ==
    {i \in 1..Len(rec) :
        /\ rec[i].tag \in tags
        /\ rec[i].sf["2"] = vocabulary
        /\ LET sfa == normalize_term(rec[i].sf["a"])
               sfx == normalize_term(rec[i].sf["x"])
           IN IF Len(term) = 2 THEN sfa = term[1] /\ sfx = term[2]
              ELSE IF exact_only THEN sfa = term[1] /\ sfx = None
              ELSE sfa = term[1] \/ sfx = term[1]}

\* Bib.remove_duplicate_fields: of the subject fields with the same tag, a
\* and x, the first is kept
remove_duplicate_fields(rec, vocabulary, term, tags) ==
    LET cand == subject_fields(rec, term, vocabulary, tags, FALSE)
        streng(i) == <<rec[i].tag, rec[i].sf["a"], rec[i].sf["x"]>>
    IN RemoveAt(rec, {i \in cand : \E j \in cand : j < i /\ streng(j) = streng(i)})

\* Bib.edit_subject
edit_subject(rec, vocabulary, old_term, new_term, tags) ==
    LET r == remove_duplicate_fields(rec, vocabulary, old_term, tags)
        hit == subject_fields(r, old_term, vocabulary, tags, FALSE)
        sfa_m0(f) == f.sf["a"] # None /\ normalize_term(f.sf["a"]) = old_term[1]
        sfx_m0(f) == f.sf["x"] # None /\ normalize_term(f.sf["x"]) = old_term[1]
        sfx_m1(f) == f.sf["x"] # None /\ normalize_term(f.sf["x"]) = old_term[2]
        edit(f) ==
            IF Len(old_term) = 2
            THEN IF sfa_m0(f) /\ sfx_m1(f)
                 THEN IF Len(new_term) = 2
                      THEN [f EXCEPT !.sf["a"] = new_term[1], !.sf["x"] = new_term[2]]
                      ELSE [f EXCEPT !.sf["a"] = new_term[1], !.sf["x"] = None]
                 ELSE f
            ELSE IF sfa_m0(f) THEN [f EXCEPT !.sf["a"] = new_term[1]]
                 ELSE IF sfx_m0(f) THEN [f EXCEPT !.sf["x"] = new_term[1]]
                 ELSE f
    IN [i \in 1..Len(r) |-> IF i \in hit THEN edit(r[i]) ELSE r[i]]

\* Bib.remove_subject
remove_subject(rec, vocabulary, term, tags) ==
    RemoveAt(rec, subject_fields(rec, term, vocabulary, tags, TRUE))

\* prompter.yesno(message, default): true when the operator gives the
\* default answer
yesno(answer, default) == answer = default

\* variant: a linked record is saved without regard to the answer
SkipsSave_Never(linked, answer) == FALSE

\* Bib.save returning before the update request: the record is linked to the
\* shared database and the operator does not want to continue
SkipsSave(linked, answer) == linked /\ yesno(answer, "no")

\* the subject fields of the record after the edit of the loop of main:
\* old_term is the first source term, new_term the first target term, ''
\* when there is none
Edited(rec) ==
    LET old_term == source_concepts[1].components
        vocabulary == source_concepts[1].sf["2"]
        tags == {source_concepts[1].tag}
    IN IF target_concepts = <<>>
       THEN remove_subject(rec, vocabulary, old_term, tags)
       ELSE edit_subject(rec, vocabulary, old_term, target_concepts[1].components, tags)

\* main, at the start of part 2: valid_records is the list part 1 built
LegacyInit ==
    /\ pc = "l_loop"
    /\ err = "" /\ action = "legacy" /\ cql_arg = None /\ grep_arg = None
    /\ cql_query = {} /\ grep = None /\ steps = <<>> /\ seen = <<>>
    /\ interactivity = INTERACTIVITY_STANDARD
    /\ dry_run \in BOOLEAN
    /\ source_concepts = <<Concept(T650, noubomn, <<Mo>>)>>
    /\ target_concepts \in {<<>>, <<Concept(T650, noubomn, <<Ma>>)>>}
    /\ valid_records \in UNION {[1..n -> DOMAIN Catalog] : n \in 0..MaxResults}
    /\ remaining = DOMAIN valid_records
    /\ cur = 0 /\ record = <<>>
    /\ records_changed = 0 /\ changes_made = 0 /\ result = {}
    /\ alma = Catalog
    /\ linked_to_cz \in SUBSET (DOMAIN Catalog)
    /\ log = <<>>

legacy_fixed == <<action, cql_arg, grep_arg, cql_query, grep, steps, seen,
                  interactivity, dry_run, source_concepts, target_concepts,
                  valid_records, records_changed, changes_made, linked_to_cz>>

\* the question of Bib.save, put for a linked record only
LegacyAsk(id, answer) ==
    IF id \in linked_to_cz THEN <<Ev("ask", id, Bit(answer = "yes"))>> ELSE <<>>

\* one round of the loop of main under --dry_run: fetch and edit, no save
L_DryRun ==
    /\ pc = "l_loop" /\ remaining # {} /\ dry_run
    /\ LET id == valid_records[Min(remaining)]
       IN /\ cur' = id
          /\ record' = Edited(alma[id])
          /\ log' = Append(log, Ev("get", id, 1))
    /\ remaining' = remaining \ {Min(remaining)}
    /\ UNCHANGED <<legacy_fixed, pc, err, alma, result>>

\* Alma.bibs raising on a response with another identifier
L_Mismatch ==
    /\ pc = "l_loop" /\ remaining # {}
    /\ cur' = valid_records[Min(remaining)]
    /\ log' = Append(log, Ev("get", valid_records[Min(remaining)], 0))
    /\ pc' = "l_failed"
    /\ err' = "Mismatch"
    /\ UNCHANGED <<legacy_fixed, remaining, record, alma, result>>

\* one round in which Bib.save returns without the update request
L_SkipLinked ==
    /\ pc = "l_loop" /\ remaining # {} /\ ~dry_run
    /\ LET id == valid_records[Min(remaining)]
       IN \E answer \in {"yes", "no"} :
             /\ SkipsSave(id \in linked_to_cz, answer)
             /\ cur' = id
             /\ record' = Edited(alma[id])
             /\ log' = log \o <<Ev("get", id, 1)>> \o LegacyAsk(id, answer)
    /\ remaining' = remaining \ {Min(remaining)}
    /\ UNCHANGED <<legacy_fixed, pc, err, alma, result>>

\* one round in which Bib.save sends the record and the ILS accepts it
L_Save ==
    /\ pc = "l_loop" /\ remaining # {} /\ ~dry_run
    /\ LET id == valid_records[Min(remaining)]
       IN \E answer \in {"yes", "no"} :
             /\ ~SkipsSave(id \in linked_to_cz, answer)
             /\ cur' = id
             /\ record' = Edited(alma[id])
             /\ alma' = [alma EXCEPT ![id] = Edited(alma[id])]
             /\ log' = log \o <<Ev("get", id, 1)>> \o LegacyAsk(id, answer)
                           \o <<Ev("put", id, 1)>>
    /\ remaining' = remaining \ {Min(remaining)}
    /\ UNCHANGED <<legacy_fixed, pc, err, result>>

\* one round in which the update request fails: RuntimeError leaves main
L_SaveFails ==
    /\ pc = "l_loop" /\ remaining # {} /\ ~dry_run
    /\ LET id == valid_records[Min(remaining)]
       IN \E answer \in {"yes", "no"} :
             /\ ~SkipsSave(id \in linked_to_cz, answer)
             /\ cur' = id
             /\ record' = Edited(alma[id])
             /\ log' = log \o <<Ev("get", id, 1)>> \o LegacyAsk(id, answer)
                           \o <<Ev("put_failed", id, 1)>>
    /\ pc' = "l_failed"
    /\ err' = "PutFailed"
    /\ UNCHANGED <<legacy_fixed, remaining, alma, result>>

\* the loop is through: main returns valid_records
L_Finish ==
    /\ pc = "l_loop" /\ remaining = {}
    /\ pc' = "l_done"
    /\ result' = Range(valid_records)
    /\ UNCHANGED <<legacy_fixed, err, remaining, cur, record, alma, log>>

LegacyNext ==
    L_DryRun \/ L_Mismatch \/ L_SkipLinked \/ L_Save \/ L_SaveFails \/ L_Finish

LegacySpec == LegacyInit /\ [][LegacyNext]_vars

\* ------------------------------------------------------------------------
\* Claims about the tasks (specification TaskSpec)
\* ------------------------------------------------------------------------
\* the canonical key of a field: its tag and its normalised a, b, x, y, z
CanonKey(field) ==
    <<field.tag>> \o [k \in 1..5 |-> normalize_term(field.sf[<<"a", "b", "x", "y", "z">>[k]])]

\* remove_duplicates has processed the record: called on its own, or as the
\* last statement of the run of a Replace, Add or Move task
Deduplicated ==
    /\ pc \in {"t_dedup1", "t_dedup2", "t_ran"}
    /\ steps[1].kind \in {"replace", "add", "move"}

\* the fields sharing the tag and the vocabulary code remove_duplicates was
\* called with
SameTagAndVocabulary ==
    {i \in 1..Len(record) :
        /\ record[i].tag = DedupArgs(steps[1]).tag
        /\ record[i].sf["2"] = steps[1].source.sf["2"]}

\* the fields remove_duplicates looks at: those matching the tag, the
\* vocabulary code and the target values of its query
DedupCandidates ==
    fields(record, DedupArgs(steps[1]).tag, DedupQuery(DedupArgs(steps[1]).query))

\* C11  (stated as the claim reads; refuted)
\* After remove_duplicates, no two fields of the record that share the task's
\* tag and vocabulary code have the same canonical key.
C11_OneFieldPerKey ==
    Deduplicated =>
        \A i, j \in SameTagAndVocabulary :
            i # j => CanonKey(record[i]) # CanonKey(record[j])

\* C11 as amended: after remove_duplicates, no two of the fields matching its
\* query (tag, vocabulary code and the target values of the subfields the
\* query covers) have the same canonical key.
C11_OneCandidatePerKey ==
    Deduplicated =>
        \A i, j \in DedupCandidates :
            i # j => CanonKey(record[i]) # CanonKey(record[j])

\* a run has removed a duplicate that differed from the kept field in case
C11_Witness ==
    /\ pc = "t_ran"
    /\ steps[1].kind = "move"
    /\ Len(record) < Len(alma[1])
    /\ \E i, j \in 1..Len(alma[1]) :
          /\ i # j
          /\ alma[1][i].sf["a"] # alma[1][j].sf["a"]
          /\ normalize_term(alma[1][i].sf["a"]) = normalize_term(alma[1][j].sf["a"])

\* C12  remove_duplicates run twice with the same tag and query leaves the
\* record the first run left, and the second run returns 0.
C12_DedupIdempotent ==
    (pc = "t_dedup2") =>
        LET args == DedupArgs(steps[1])
        IN /\ record = remove_duplicates(alma[1], args.tag, args.query).rec
           /\ Len(record) = Len(alma[1]) - log[1].n
           /\ log[2].op = "dedup" /\ log[2].n = 0

\* the first run removed a field, the second has run
C12_Witness ==
    /\ pc = "t_dedup2"
    /\ log[1].n > 0
    /\ Len(record) < Len(alma[1])

Headings == {"a", "b", "x", "y", "z"}

\* the field has the concept's tag and vocabulary code and, for every code
\* of `codes`, the concept's value up to normalisation (absent where the
\* concept has none)
Holds(field, concept, codes) ==
    /\ field.tag = concept.tag
    /\ field.sf["2"] = concept.sf["2"]
    /\ \A c \in codes : normalize_term(field.sf[c]) = normalize_term(concept.sf[c])

Populated(concept) == {c \in Headings : concept.sf[c] # None}

\* the fields of rec a Replace of src by dst rewrites: those holding exactly
\* the source heading (and an identifier, when the target brings one) and,
\* with ignore_extra_components, those holding it among other subfields
HitExact(rec, src, dst) ==
    {i \in 1..Len(rec) : /\ Holds(rec[i], src, Headings)
                         /\ dst.sf["0"] # None => rec[i].sf["0"] # None}
HitComponent(rec, src) ==
    {i \in 1..Len(rec) : Holds(rec[i], src, Populated(src))}
Hit(rec, task) ==
    HitExact(rec, task.source, task.targets[1])
    \cup (IF task.ignore_extra_components THEN HitComponent(rec, task.source) ELSE {})

\* the fields of rec equal to the target: its heading and its identifier
EqualsTarget(rec, dst) ==
    {i \in 1..Len(rec) : /\ Holds(rec[i], dst, Headings)
                         /\ dst.sf["0"] # None => rec[i].sf["0"] = dst.sf["0"]}

\* the field with the target's values written into it: into a, b, x, y, z
\* (and 0, when the target brings an identifier) where the field holds
\* exactly the source heading, into the subfields the source populates where
\* it holds it among other subfields
Rewritten(field, task) ==
    LET dst == task.targets[1]
        exact == /\ Holds(field, task.source, Headings)
                 /\ dst.sf["0"] # None => field.sf["0"] # None
        codes == IF exact
                 THEN Headings \cup (IF dst.sf["0"] # None THEN {"0"} ELSE {})
                 ELSE Populated(task.source)
    IN [field EXCEPT !.sf = [c \in FieldCodes |->
                                IF c \in codes THEN dst.sf[c] ELSE field.sf[c]]]

\* the record with every field the task matches rewritten, before duplicates
\* are removed
RewrittenRecord(rec, task) ==
    [i \in 1..Len(rec) |-> IF i \in Hit(rec, task) THEN Rewritten(rec[i], task) ELSE rec[i]]

NoDuplicateRemoved == Len(record) = Len(alma[1])

\* C14  (stated as the claim reads; refuted)
\* A Replace of S by T followed by a Replace of T by S restores the
\* subfield values of the record, provided neither run removed a duplicate.
C14_RoundTrip ==
    (pc = "t_back" /\ NoDuplicateRemoved) => record = alma[1]

\* C14 as amended: when, besides, the record held no field matching T before
\* the first run, the round trip restores tag, vocabulary code and the
\* a, b, x, y, z values of every field up to the capitalisation
\* normalize_term applies; a subfield 0 is as before or holds the identifier
\* of T.
C14_RoundTripOfHeadings ==
    (/\ pc = "t_back" /\ NoDuplicateRemoved
     /\ Hit(alma[1], Reverse(steps[1])) = {}) =>
        \A i \in 1..Len(record) :
            /\ CanonKey(record[i]) = CanonKey(alma[1][i])
            /\ record[i].sf["2"] = alma[1][i].sf["2"]
            /\ \/ record[i].sf["0"] = alma[1][i].sf["0"]
               \/ /\ steps[1].targets[1].sf["0"] # None
                  /\ record[i].sf["0"] = steps[1].targets[1].sf["0"]

\* both runs changed a field of two subfields and the record is as it was
C14_Witness ==
    /\ pc = "t_back" /\ NoDuplicateRemoved
    /\ Hit(alma[1], Reverse(steps[1])) = {}
    /\ log[1].c > 0 /\ log[2].c > 0
    /\ \E i \in 1..Len(record) : record[i].sf["x"] # None /\ record[i] = alma[1][i]
    /\ \E i \in 1..Len(record) :
          Holds(alma[1][i], steps[1].source, Populated(steps[1].source))

\* the fields with the source's tag and vocabulary code, the source's value
\* in every subfield the source populates, and a subfield besides
Tolerated(rec, src) ==
    {i \in 1..Len(rec) :
        /\ rec[i].tag = src.tag
        /\ rec[i].sf["2"] = src.sf["2"]
        /\ \A c \in Populated(src) : rec[i].sf[c] = src.sf[c]
        /\ \E c \in Headings \ Populated(src) : rec[i].sf[c] # None}

\* C15  A field with the source's vocabulary code and the source's value in
\* every subfield the source populates, carrying besides a subfield the
\* source does not populate, matches the component query and does not match
\* the full query; so a record of such fields is matched by the Replace task
\* with ignore_extra_components and not by the one without.
C15_ComponentTolerance ==
    (pc = "t_matched") =>
        LET src == steps[1].source
            tol == Tolerated(record, src)
        IN /\ tol \subseteq fields(record, src.tag, make_component_query(src, NoTarget))
           /\ tol \cap fields(record, src.tag, make_query(src, NoTarget)) = {}
           /\ tol # {} => log[1].c = 1
           /\ (tol # {} /\ tol = 1..Len(record)) => log[1].n = 0

\* a record whose only field holds the source heading and a subfield x
C15_Witness ==
    /\ pc = "t_matched"
    /\ Len(record) = 1
    /\ Tolerated(record, steps[1].source) = {1}
    /\ steps[1].source.sf["x"] = None /\ record[1].sf["x"] # None
    /\ log[1].op = "match" /\ log[1].c = 1 /\ log[1].n = 0

\* the step replaces the term src.term held in subfield `code` (the other of
\* a and x being absent) by dst.term in the same subfield
ReplacesIn(step, code, src, dst) ==
    LET other == IF code = "a" THEN "x" ELSE "a"
    IN /\ step.kind = "replace"
       /\ step.source.sf[code] = src.term /\ step.source.sf[other] = None
       /\ step.targets[1].sf[code] = dst.term /\ step.targets[1].sf[other] = None
       /\ step.source.sf["2"] = src.sf["2"] /\ step.source.tag = src.tag

\* C16  generate_replace_tasks yields three Replace tasks, in the order
\* a exact, a component, x component, when source and target are both of one
\* component and both ambiguous between a and x; in every other case it
\* yields one exact-match Replace task of the source by the target.
C16_GeneratedTasks ==
    (pc = "g_done") =>
        LET src == source_concepts[1]
            dst == target_concepts[1]
        IN IF /\ Len(src.components) = 1 /\ Len(dst.components) = 1
              /\ src.sf["a_or_x"] # None /\ dst.sf["a_or_x"] # None
           THEN /\ Len(steps) = 3
                /\ ReplacesIn(steps[1], "a", src, dst)
                /\ ~steps[1].ignore_extra_components
                /\ ReplacesIn(steps[2], "a", src, dst)
                /\ steps[2].ignore_extra_components
                /\ ReplacesIn(steps[3], "x", src, dst)
                /\ steps[3].ignore_extra_components
           ELSE /\ Len(steps) = 1
                /\ steps[1].kind = "replace"
                /\ steps[1].source = src /\ steps[1].targets = <<dst>>
                /\ ~steps[1].ignore_extra_components

\* three tasks were generated for an ambiguous pair
C16_Witness ==
    /\ pc = "g_done"
    /\ source_concepts[1].sf["a_or_x"] # None
    /\ target_concepts[1].sf["a_or_x"] # None
    /\ Len(steps) = 3

\* ------------------------------------------------------------------------
\* Further claims about the job (specification Spec)
\* ------------------------------------------------------------------------
\* the first target was sent to the authority service before any search
FirstTargetSent ==
    \E i \in LogAt("authorize") :
        /\ log[i].n = 1
        /\ \A j \in LogAt("search") : i < j

\* an error of the constructor has its own cause, whatever the lookup gave
MissIsNotFatal ==
    /\ err = "Disabled648" => Disabled648(source_concepts)
    /\ err = "NoQuery" => CqlQuery(cql_arg, source_concepts) = {}
    /\ err = "IndexError" => StepsIndexError(action, source_concepts, target_concepts)

\* C17  (stated as the claim reads; refuted)
\* When targets exist, the first target is sent to authorize_concept before
\* the search is started, and a lookup that leaves it without identifier is
\* no error.
C17_FirstTargetAuthorized ==
    /\ (Len(target_concepts) > 0 /\ LogAt("search") # {}) => FirstTargetSent
    /\ MissIsNotFatal

\* C17 as amended: the same for every action but remove; a remove job sends
\* nothing to the authority service.
C17_AuthorizedUnlessRemove ==
    /\ (Len(target_concepts) > 0 /\ action # "remove" /\ LogAt("search") # {})
            => FirstTargetSent
    /\ action = "remove" => LogAt("authorize") = {}
    /\ MissIsNotFatal

\* a job whose first target came back without identifier has searched and
\* saved a record
C17_Witness ==
    /\ action = "replace"
    /\ Len(target_concepts) > 0 /\ target_concepts[1].sf["0"] = None
    /\ FirstTargetSent
    /\ LogAt("search") # {} /\ PutCalls # {}
    /\ pc = "done"

\* ------------------------------------------------------------------------
\* Claims about the legacy script (specification LegacySpec)
\* ------------------------------------------------------------------------
\* C18  Saving a record linked to the shared database asks the operator, for
\* that record; on decline the record is skipped, with no update request and
\* no error, and the batch goes on with the next record; on accept the update
\* request is issued. Records that are not linked are saved unasked.
C18_LinkedRecordAsked ==
    \A i \in 1..Len(log) :
        /\ (log[i].op = "get" /\ log[i].n = 1 /\ ~dry_run /\ log[i].id \in linked_to_cz)
              => (i < Len(log) /\ log[i + 1] = Ev("ask", log[i].id, log[i + 1].n))
        /\ log[i].op = "ask"
              => (log[i].id \in linked_to_cz /\ i > 1 /\ log[i - 1] = Ev("get", log[i].id, 1))
        /\ (log[i].op = "ask" /\ log[i].n = 0)
              => \/ i = Len(log) /\ err = "" /\ pc \in {"l_loop", "l_done"}
                 \/ i < Len(log) /\ log[i + 1].op = "get"
        /\ (log[i].op = "ask" /\ log[i].n = 1)
              => /\ i < Len(log)
                 /\ log[i + 1].op \in {"put", "put_failed"}
                 /\ log[i + 1].id = log[i].id
        /\ (log[i].op \in {"put", "put_failed"} /\ log[i].id \in linked_to_cz)
              => (i > 1 /\ log[i - 1] = Ev("ask", log[i].id, 1))

\* the operator declined for one linked record and accepted for the next,
\* which was saved
C18_Witness ==
    \E i, j \in 1..Len(log) :
        /\ i < j /\ j < Len(log)
        /\ log[i].op = "ask" /\ log[i].n = 0
        /\ log[j].op = "ask" /\ log[j].n = 1 /\ log[j].id # log[i].id
        /\ log[j + 1] = Ev("put", log[j].id, 1)
        /\ ~\E k \in 1..Len(log) : log[k].op = "put" /\ log[k].id = log[i].id

\* the phase of start() a position belongs to: 1 Searching/Filtering,
\* 2 Confirming, 3 Applying, 4 Done; 0 before start() is entered
Phase(p) ==
    CASE p = "searching" -> 1
      [] p = "confirming" -> 2
      [] p \in {"applying", "updating"} -> 3
      [] p \in {"done", "failed"} -> 4
      [] OTHER -> 0

\* one search once start() is entered; the batch question after it; every
\* get_record and put_record in or after Applying and after both
PhaseInv ==
    /\ Cardinality(LogAt("search")) = (IF Phase(pc) >= 1 THEN 1 ELSE 0)
    /\ Phase(pc) < 3 => Gets \cup PutCalls = {}
    /\ \A s \in LogAt("search") :
          /\ \A c \in LogAt("confirm") : s < c
          /\ \A g \in Gets \cup PutCalls :
                s < g /\ \A c \in LogAt("confirm") : c < g

\* the phases are passed in order, and from Applying on nothing is taken
\* from the search any more
PhaseStep ==
    /\ Phase(pc') >= Phase(pc)
    /\ Phase(pc) = 2 => Phase(pc') \in {2, 3, 4}
    /\ Phase(pc) >= 2 =>
          /\ seen' = seen
          /\ valid_records' = valid_records
          /\ LogAt("search")' = LogAt("search")

\* C19  start() passes through Searching/Filtering, Confirming, Applying and
\* Done in this order: the search is invoked exactly once; no get_record or
\* put_record is issued before the search sequence is consumed and filtered;
\* once Applying has begun the search is never called again.
C19_PhasesInOrder == []PhaseInv /\ [][PhaseStep]_vars

\* a job went through all four phases: it took two records from the search,
\* was confirmed, fetched and saved
C19_Witness ==
    /\ pc = "done"
    /\ Len(seen) = 2
    /\ LogAt("confirm") # {}
    /\ Gets # {} /\ LogAt("put") # {}

\* a record was fetched and update_record has run on it
Processed == {i \in Gets : log[i].n = 1 /\ i < Len(log)}

\* C20  With interactivity increased, a record whose change count is above
\* zero is put to the operator before put_record; on decline put_record is
\* not called for it, it is not counted, and the job goes on with the next
\* retained record; on accept put_record is called. At the other levels no
\* record is put to the operator.
C20_AskedBeforePut ==
    /\ \A i \in Processed :
          LET q == i + Len(steps) + 1
          IN /\ (interactivity = INTERACTIVITY_INCREASED /\ RunTotal(i) > 0)
                    => (q <= Len(log) /\ log[q].op = "ask" /\ log[q].id = log[i].id)
             /\ (interactivity # INTERACTIVITY_INCREASED \/ RunTotal(i) = 0)
                    => (q <= Len(log) => log[q].op # "ask")
    /\ \A a \in LogAt("ask") :
          /\ log[a].n = 1 =>
                /\ a < Len(log)
                /\ log[a + 1].op \in {"put", "put_failed"}
                /\ log[a + 1].id = log[a].id
          /\ log[a].n = 0 =>
                \/ a = Len(log) /\ pc \in {"applying", "done"} /\ err = ""
                \/ a < Len(log) /\ log[a + 1].op = "get"
    /\ \A p \in PutCalls :
          interactivity = INTERACTIVITY_INCREASED =>
              (p > 1 /\ log[p - 1] = Ev("ask", log[p].id, 1))
    /\ records_changed = Cardinality(LogAt("put"))

\* the operator declined one record and accepted the next: one put, one
\* record counted
C20_Witness ==
    /\ interactivity = INTERACTIVITY_INCREASED
    /\ \E a, b \in LogAt("ask") :
          a < b /\ log[a].n = 0 /\ log[b].n = 1 /\ log[a].id # log[b].id
    /\ Cardinality(LogAt("put")) = 1
    /\ records_changed = 1
    /\ pc = "done"

\* ------------------------------------------------------------------------
\* Claims about the Add task and about repeated runs (specification TaskSpec)
\* ------------------------------------------------------------------------
Max(S) == CHOOSE i \in S : \A j \in S : j <= i

\* the field an Add task builds from its concept: a, 2 and, where the
\* concept has them, 0 and x
NewField(src) ==
    [tag |-> src.tag,
     sf |-> [c \in FieldCodes |-> IF c \in {"a", "2", "0", "x"} THEN src.sf[c] ELSE None]]

\* the fields of rec that hold the heading the Add task adds
Twins(rec, src) ==
    {i \in 1..Len(rec) :
        /\ rec[i].tag = src.tag /\ rec[i].sf["2"] = src.sf["2"]
        /\ CanonKey(rec[i]) = CanonKey(NewField(src))}

\* the record an Add leaves when the new field goes behind the last field of
\* `behind` (to the end when there is none): with the new field at that
\* place when the record had no twin of it, and otherwise without it and
\* with the first twin only
AddedBehind(rec, src, behind) ==
    LET pos == IF behind = {} THEN Len(rec) + 1 ELSE Max(behind) + 1
        twins == Twins(rec, src)
    IN IF twins = {}
       THEN SubSeq(rec, 1, pos - 1) \o <<NewField(src)>> \o SubSeq(rec, pos, Len(rec))
       ELSE RemoveAt(rec, twins \ {Min(twins)})

\* C21  (stated as the claim reads; refuted)
\* AddTask.run inserts the new field immediately after the last field of the
\* record with the same vocabulary code, at the end when there is none, and
\* then deduplicates: a field that was there is kept, the new one removed.
C21_InsertedAfterVocabulary ==
    (pc = "t_ran" /\ steps[1].kind = "add") =>
        LET src == steps[1].source
        IN record = AddedBehind(alma[1], src,
                        {i \in 1..Len(alma[1]) : alma[1][i].sf["2"] = src.sf["2"]})

\* C21 as amended: the same, the new field going behind the last field with
\* the same tag and the same vocabulary code.
C21_InsertedAfterTagAndVocabulary ==
    (pc = "t_ran" /\ steps[1].kind = "add") =>
        LET src == steps[1].source
        IN record = AddedBehind(alma[1], src,
                        {i \in 1..Len(alma[1]) : /\ alma[1][i].tag = src.tag
                                                 /\ alma[1][i].sf["2"] = src.sf["2"]})

\* the new field was inserted in front of a field of another vocabulary
C21_Witness ==
    /\ pc = "t_ran" /\ steps[1].kind = "add"
    /\ Len(alma[1]) = 2 /\ Len(record) = 3
    /\ record[2] = NewField(steps[1].source)
    /\ record[1] = alma[1][1] /\ record[3] = alma[1][2]
    /\ record[3].sf["2"] # steps[1].source.sf["2"]

\* a Delete task, a Move task, or a Replace task whose target differs from
\* its source in one of a, b, x, y, z
Mutates(task) ==
    \/ task.kind \in {"delete", "move"}
    \/ /\ task.kind = "replace"
       /\ \E c \in Headings : task.targets[1].sf[c] # task.source.sf[c]

\* a Replace task whose run rewrites every field its match finds: the target
\* brings no identifier, and differs from the source, capitalisation apart,
\* in a subfield the match looks at (with ignore_extra_components, one the
\* source populates)
RewritesAllMatches(task) ==
    /\ task.kind = "replace"
    /\ task.targets[1].sf["0"] = None
    /\ \E c \in (IF task.ignore_extra_components THEN Populated(task.source) ELSE Headings) :
          normalize_term(task.targets[1].sf[c]) # normalize_term(task.source.sf[c])

\* a second run returned 0 and left the record as the first run had left it
SecondRunIdle ==
    (pc = "t_ran2" /\ Mutates(steps[1])) =>
        /\ log[2].op = "run" /\ log[2].c = 0
        /\ record = alma[2]

\* C22  (stated as the claim reads; refuted)
\* Right after run(record) of a Delete task, a Move task, or a Replace task
\* whose target differs from its source in one of a, b, x, y, z, the task's
\* match(record) is false, and a second run returns 0 and leaves the record
\* unchanged.
C22_RunsAreExhaustive ==
    /\ (pc = "t_ran_matched" /\ Mutates(steps[1])) => log[2].n = 0
    /\ SecondRunIdle

\* C22 as amended: match(record) is false after the run of a Delete task, of
\* a Move task, and of a Replace task whose target brings no authority
\* identifier and differs from the source, capitalisation apart, in a
\* subfield the match looks at; the second run returns 0 and leaves the
\* record unchanged for every task the claim names.
C22_MatchedFieldsAreRewritten ==
    /\ (/\ pc = "t_ran_matched"
        /\ steps[1].kind \in {"delete", "move"} \/ RewritesAllMatches(steps[1]))
            => log[2].n = 0
    /\ SecondRunIdle

\* a Replace has changed a field, and a second run finds nothing to change
C22_Witness ==
    /\ pc = "t_ran2"
    /\ steps[1].kind = "replace" /\ RewritesAllMatches(steps[1])
    /\ log[1].c > 0 /\ log[2].c = 0
    /\ record = alma[2] /\ record # alma[1]
    /\ ~StepMatch(steps[1], record)

\* ------------------------------------------------------------------------
\* Claims about the counters and the Add step of a job (specification Spec)
\* ------------------------------------------------------------------------
\* the counters are 0 until Applying; never more records than changes, than
\* calls of get_record, than retained records
CounterInv ==
    /\ Phase(pc) < 3 => (records_changed = 0 /\ changes_made = 0)
    /\ records_changed <= changes_made
    /\ records_changed <= Cardinality(Gets)
    /\ Cardinality(Gets) <= Len(valid_records)

\* Applying begins with both counters at 0; a counter changes only in a step
\* in which update_record has saved the current record and returned c > 0,
\* the sum of what its steps returned: by 1 for the records, by c for the
\* changes
CounterStep ==
    /\ (Phase(pc) < 3 /\ Phase(pc') = 3) => (records_changed' = 0 /\ changes_made' = 0)
    /\ <<records_changed', changes_made'>> # <<records_changed, changes_made>> =>
          /\ pc = "updating"
          /\ Len(log') > Len(log)
          /\ LET put == log'[Len(log')]
             IN /\ put.op = "put" /\ put.id = cur
                /\ put.n > 0
                /\ put.n = Updated(0).n \/ action = "interactive"
                /\ records_changed' = records_changed + 1
                /\ changes_made' = changes_made + put.n

\* C23  Both counters are reset to 0 when Applying begins; they change only
\* after update_record returned a count c > 0 for a record, records_changed
\* by exactly 1 and changes_made by c; so records_changed <= changes_made and
\* records_changed <= number of get_record calls <= size of the retained set.
C23_CounterInvariant == []CounterInv /\ [][CounterStep]_vars

\* two records were fetched and saved, with more changes than records
C23_Witness ==
    /\ pc = "done"
    /\ records_changed = 2
    /\ changes_made > records_changed
    /\ Cardinality(Gets) = 2

\* the job and the tasks on their own, side by side
JobAndTaskSpec == (Init \/ TaskInit) /\ [][Next \/ TaskNext]_vars

\* every run of an Add task so far returned 1
AddReturnsOne ==
    (pc \in {"t_ran", "t_ran2"} /\ steps[1].kind = "add") =>
        \A i \in 1..Len(log) : log[i].op = "run" => log[i].c = 1

\* a job with an Add step: every record it fetched and ran its steps on has a
\* change count of 1 or more and is put to the operator, where every record
\* is, and to put_record
AddStepPersists ==
    (\E k \in 1..Len(steps) : steps[k].kind = "add") =>
        \A i \in Processed :
            LET q == i + Len(steps) + 1
            IN /\ RunTotal(i) >= 1
               /\ q <= Len(log)
               /\ log[q].op \in (IF interactivity = INTERACTIVITY_INCREASED
                                 THEN {"ask"} ELSE {"put", "put_failed"})
               /\ (log[q].op = "ask" /\ log[q].n = 1) =>
                     (q < Len(log) /\ log[q + 1].op \in {"put", "put_failed"})

====
